---- MODULE Spec2Model ----
(***************************************************************************)
(* BitArray<T> (include/BitArray.hpp): a block-packed array of bits, its   *)
(* forward and reverse iterators, and the ownership of its block buffer.   *)
(*                                                                         *)
(* A block value is the set of bit positions that are 1 (position 0 is the *)
(* least significant bit), so 64-bit blocks need no 64-bit integers.       *)
(* A pointer into the buffer is the index of the block it points to,       *)
(* relative to `blocks`: -1 is the block before the buffer, nblocks the    *)
(* block after it.                                                         *)
(***************************************************************************)
EXTENDS Integers, Sequences, FiniteSets, TLC

VARIABLES
    bits_per_block,   \* sizeof(block_type) * __CHAR_BIT__ of this instantiation
    bits,             \* long long bits
    requested,        \* the num_bits the array was constructed with
    blocks,           \* block_type *blocks: [0 .. nblocks-1 -> SUBSET BitPos]
    outside,          \* what the memory next to the buffer holds, known once a
                      \* traversal has read it ({} until then)
    last,             \* the last call on the container and what it returned; for
                      \* at, also the bit count and the buffer before the call
    pc,               \* position of the caller's traversal loop
    loop,             \* the loop running: direction, shift outcome, out-of-buffer read,
                      \* and whether it runs right after set_all or clear_all
    it,               \* the loop's iterator: [ptr, current_idx]
    out,              \* the booleans the loop has yielded so far
    objs,             \* ownership model: the BitArray objects
    heap,             \* ownership model: per buffer, how often it was released
    uaf               \* ownership model: a released buffer was used

cvars == <<bits_per_block, bits, requested, blocks, outside, last>>
tvars == <<pc, loop, it, out>>
ovars == <<objs, heap, uaf>>
vars == <<bits_per_block, bits, requested, blocks, outside, last, pc, loop, it, out, objs, heap, uaf>>

----------------------------------------------------------------------------
(* Program constants *)

CHAR_BIT == 8
default_size == 16
\* width of int, the type of the literal 1 in block_bitmask
int_bits == 32

\* sizeof(block_type): integral, a power of two
BlockSizes == {1, 2, 4, 8}

(* Bounds of the model *)

\* sizes within MaxDelta of 0 and of the block width are constructed
MaxDelta == 1
\* indices within MaxEdge of either end of the array are used
MaxEdge == 1
\* blocks outside the buffer, on either side, that a pointer is followed into
MaxGuard == 1
\* BitArray objects and block buffers of the ownership model
MaxObjs == 3
MaxBufs == 2

----------------------------------------------------------------------------
(* Bit arithmetic *)

BitPos == 0 .. (bits_per_block - 1)

RECURSIVE BitAnd(_, _)
BitAnd(a, b) ==
    IF a = 0 \/ b = 0 THEN 0
    ELSE (a % 2) * (b % 2) + 2 * BitAnd(a \div 2, b \div 2)

\* The outcomes of the shift in block_bitmask.  Shifting the int 1 by 32 or
\* more is undefined; builds of this code produce the count taken modulo 32
\* ("wrap", the x86 shift instruction) and 0 ("zero", a folded shift).
ShiftOutcomes == IF bits_per_block > int_bits THEN {"wrap", "zero"} ELSE {"wrap"}

\* 1 << s as an int: the set of bits of the 32-bit result
shl_int(s, ub) ==
    IF s < int_bits THEN {s}
    ELSE IF ub = "wrap" THEN {s % int_bits}
    ELSE {}

\* conversion of an int to block_type: truncation, or sign extension
to_block(pattern) ==
    IF bits_per_block <= int_bits
    THEN pattern \cap BitPos
    ELSE pattern \cup (IF (int_bits - 1) \in pattern
                       THEN int_bits .. (bits_per_block - 1) ELSE {})

block_bitmask(index, ub) ==
    to_block(shl_int(bits_per_block - BitAnd(index, bits_per_block - 1) - 1, ub))

\* the block at blk[b]; a block outside the buffer holds what memory holds, o
mem(blk, b, o) == IF b \in DOMAIN blk THEN blk[b] ELSE o

\* the block count without the extra block for a remainder
nblocks_floor(num_bits) == num_bits \div bits_per_block

nblocks(num_bits) ==
    (num_bits \div bits_per_block) + (IF num_bits % bits_per_block # 0 THEN 1 ELSE 0)

----------------------------------------------------------------------------
(* std::size_t arithmetic.  An operand of type long long meeting one of type
   std::size_t is converted to std::size_t, and the result is unsigned.  A
   std::size_t is four 16-bit limbs, least significant first. *)

limb == 65536

\* conversion of a non-negative long long to std::size_t
to_size_t(n) == <<n % limb, (n \div limb) % limb, 0, 0>>

\* x % w for a block width w (a power of two that divides limb)
size_t_mod(x, w) == <<x[1] % w, 0, 0, 0>>

\* x - 1 modulo 2^64: the borrow reaches limb j when every lower limb is 0
size_t_dec(x) ==
    [j \in 1 .. 4 |->
        IF \A m \in 1 .. (j - 1) : x[m] = 0
        THEN (IF x[j] = 0 THEN limb - 1 ELSE x[j] - 1)
        ELSE x[j]]

\* the value of limbs read as an unsigned number
magnitude(x) == x[1] + limb * (x[2] + limb * (x[3] + limb * x[4]))

\* conversion of a std::size_t to long long: two's complement
to_long_long(x) ==
    IF x[4] >= limb \div 2
    THEN 0 - magnitude([j \in 1 .. 4 |-> limb - 1 - x[j]]) - 1
    ELSE magnitude(x)

----------------------------------------------------------------------------
(* The container *)

\* a | m,  a & ~m  and  (bool)(a & m)  on block values
bit_or(a, m) == a \cup m

bit_andnot(a, m) == a \ m

bit_test(a, m) == (a \cap m) # {}

bit_at(index, ub) ==
    bit_test(mem(blocks, index \div bits_per_block, outside), block_bitmask(index, ub))

set(blk, index, ub) ==
    [blk EXCEPT ![index \div bits_per_block] = bit_or(@, block_bitmask(index, ub))]

clear(blk, index, ub) ==
    [blk EXCEPT ![index \div bits_per_block] = bit_andnot(@, block_bitmask(index, ub))]

\* The bits that the calls set(i) (or clear(i)), i = 0 .. bits-1, of the loops
\* of set_all and clear_all address in block b: the union of their masks.
loop_masks(b, ub) ==
    UNION {block_bitmask(i, ub) :
              i \in {j \in (b * bits_per_block) .. ((b + 1) * bits_per_block - 1) : j < bits}}

\* for (long long i = 0; i < bits; i++) set(i): every block ends up or-ed
\* with each mask the loop applies to it, whatever the order
set_all(blk, ub) == [b \in DOMAIN blk |-> bit_or(blk[b], loop_masks(b, ub))]

\* for (long long i = 0; i < bits; i++) clear(i)
clear_all(blk, ub) == [b \in DOMAIN blk |-> bit_andnot(blk[b], loop_masks(b, ub))]

\* accessible with the comparison off by one
accessible_le(bit) == bit <= bits

accessible(bit) == bit < bits

\* size() returning the capacity of the buffer instead of the bit count
size_capacity == nblocks(bits) * bits_per_block

size == bits

at(index, ub) ==
    IF accessible(index)
    THEN [op |-> "at", index |-> index, ub |-> ub, err |-> FALSE,
          val |-> bit_at(index, ub), pre |-> <<>>]
    ELSE [op |-> "at", index |-> index, ub |-> ub, err |-> TRUE,
          val |-> FALSE, pre |-> <<>>]

index_op(index, ub) ==
    [op |-> "index", index |-> index, ub |-> ub, err |-> FALSE,
     val |-> bit_at(index, ub), pre |-> <<>>]

called(name, index, ub) ==
    [op |-> name, index |-> index, ub |-> ub, err |-> FALSE, val |-> FALSE, pre |-> <<>>]

----------------------------------------------------------------------------
(* Iterators *)

Iterator(ptr, idx) == [ptr |-> ptr, current_idx |-> idx]

\* The constructor's body decrements its parameter ptr, which hides the
\* member: the member keeps the pointer it was initialised with.
ReverseIterator(ptr, idx, nbits) ==
    IF idx < 0
    THEN [ptr |-> ptr, current_idx |-> bits_per_block - 1]
    ELSE [ptr |-> ptr, current_idx |-> idx]

begin == Iterator(0, 0)

end == Iterator(bits \div bits_per_block, bits % bits_per_block)

\* rbegin without the - 1 on the offset
rbegin_no_dec == ReverseIterator(bits \div bits_per_block, bits % bits_per_block, bits)

rbegin == ReverseIterator(bits \div bits_per_block, (bits % bits_per_block) - 1, bits)

rend == ReverseIterator(0, -1, bits)

cbegin == Iterator(0, 0)

cend ==
    Iterator(bits \div bits_per_block,
             to_long_long(size_t_mod(to_size_t(bits), bits_per_block)))

\* crbegin takes 1 off the unsigned remainder; the constructor's long long
\* parameter idx receives the converted result
crbegin ==
    ReverseIterator(bits \div bits_per_block,
                    to_long_long(size_t_dec(size_t_mod(to_size_t(bits), bits_per_block))),
                    bits)

crend == ReverseIterator(0, -1, bits)

Iterator_inc(i) ==
    IF i.current_idx + 1 < bits_per_block
    THEN [i EXCEPT !.current_idx = @ + 1]
    ELSE [ptr |-> i.ptr + 1, current_idx |-> 0]

\* operator-- without the step to the previous block
Iterator_dec_stay(i) ==
    IF i.current_idx = 0
    THEN [ptr |-> i.ptr, current_idx |-> bits_per_block - 1]
    ELSE [i EXCEPT !.current_idx = @ - 1]

Iterator_dec(i) ==
    IF i.current_idx = 0
    THEN [ptr |-> i.ptr - 1, current_idx |-> bits_per_block - 1]
    ELSE [i EXCEPT !.current_idx = @ - 1]

ReverseIterator_inc(i) ==
    IF i.current_idx = 0
    THEN [ptr |-> i.ptr - 1, current_idx |-> bits_per_block - 1]
    ELSE [i EXCEPT !.current_idx = @ - 1]

ReverseIterator_dec(i) ==
    IF i.current_idx + 1 < bits_per_block
    THEN [i EXCEPT !.current_idx = @ + 1]
    ELSE [ptr |-> i.ptr + 1, current_idx |-> 0]

\* operator*, with o what the memory outside the buffer holds
deref(i, ub, o) == bit_test(mem(blocks, i.ptr, o), block_bitmask(i.current_idx, ub))

----------------------------------------------------------------------------
(* Inputs *)

NumBits == {n \in 0 .. (bits_per_block + MaxDelta) :
                n <= MaxDelta \/ n >= bits_per_block - MaxDelta}

\* what freshly allocated or neighbouring memory holds, per block
HeapFill == {{}, BitPos}

Idx == {i \in 0 .. (bits - 1) : i < MaxEdge \/ i >= bits - MaxEdge}

AtIdx == Idx \cup (bits .. (bits + MaxEdge))

NoIter == Iterator(0, 0)
NoLoop == [dir |-> "none", ub |-> "wrap", oob |-> FALSE, since |-> "other"]

\* the call the array's content results from, as far as a traversal records it
Bulk(op) == IF op \in {"set_all", "clear_all"} THEN op ELSE "other"

----------------------------------------------------------------------------
(* Construction: BitArray(num_bits) allocates without initialising and then
   runs clear_all; BitArray() delegates with default_size. *)

Construct(name, num_bits) ==
    /\ bits = num_bits
    /\ requested = num_bits
    /\ outside = {}
    /\ \E fill \in HeapFill, ub \in ShiftOutcomes :
          /\ blocks = clear_all([b \in 0 .. (nblocks(num_bits) - 1) |-> fill], ub)
          /\ last = called(name, num_bits, ub)

Init ==
    /\ bits_per_block \in {sz * CHAR_BIT : sz \in BlockSizes}
    /\ \/ \E n \in NumBits : Construct("BitArray(n)", n)
       \/ Construct("BitArray()", default_size)
    /\ pc = "idle"
    /\ loop = NoLoop
    /\ it = NoIter
    /\ out = <<>>
    /\ objs = [o \in 1 .. MaxObjs |-> [state |-> "none", blocks |-> 0]]
    /\ heap = <<>>
    /\ uaf = FALSE

----------------------------------------------------------------------------
(* Calls on the container *)

Set ==
    /\ pc = "idle"
    /\ \E i \in Idx, ub \in ShiftOutcomes :
          /\ blocks' = set(blocks, i, ub)
          /\ last' = called("set", i, ub)
    /\ UNCHANGED <<bits_per_block, bits, requested, outside>>
    /\ UNCHANGED tvars
    /\ UNCHANGED ovars

Clear ==
    /\ pc = "idle"
    /\ \E i \in Idx, ub \in ShiftOutcomes :
          /\ blocks' = clear(blocks, i, ub)
          /\ last' = called("clear", i, ub)
    /\ UNCHANGED <<bits_per_block, bits, requested, outside>>
    /\ UNCHANGED tvars
    /\ UNCHANGED ovars

SetAll ==
    /\ pc = "idle"
    /\ \E ub \in ShiftOutcomes :
          /\ blocks' = set_all(blocks, ub)
          /\ last' = called("set_all", 0, ub)
    /\ UNCHANGED <<bits_per_block, bits, requested, outside>>
    /\ UNCHANGED tvars
    /\ UNCHANGED ovars

ClearAll ==
    /\ pc = "idle"
    /\ \E ub \in ShiftOutcomes :
          /\ blocks' = clear_all(blocks, ub)
          /\ last' = called("clear_all", 0, ub)
    /\ UNCHANGED <<bits_per_block, bits, requested, outside>>
    /\ UNCHANGED tvars
    /\ UNCHANGED ovars

At ==
    /\ pc = "idle"
    /\ \E i \in AtIdx, ub \in ShiftOutcomes :
          last' = [at(i, ub) EXCEPT !.pre = <<bits, blocks>>]
    /\ UNCHANGED <<bits_per_block, bits, requested, blocks, outside>>
    /\ UNCHANGED tvars
    /\ UNCHANGED ovars

Index ==
    /\ pc = "idle"
    /\ \E i \in Idx, ub \in ShiftOutcomes : last' = index_op(i, ub)
    /\ UNCHANGED <<bits_per_block, bits, requested, blocks, outside>>
    /\ UNCHANGED tvars
    /\ UNCHANGED ovars

----------------------------------------------------------------------------
(* The caller's traversal loops:
     for (it = begin();  it != end();  ++it) yield *it     (README)
     for (it = rbegin(); it != rend(); it++) yield *it     (print, main.cpp) *)

sentinel == IF loop.dir = "fwd" THEN end ELSE rend

advance(i) == IF loop.dir = "fwd" THEN Iterator_inc(i) ELSE ReverseIterator_inc(i)

BeginLoop ==
    /\ pc = "idle"
    /\ \E d \in {"fwd", "rev"}, ub \in ShiftOutcomes :
          /\ loop' = [dir |-> d, ub |-> ub, oob |-> FALSE, since |-> Bulk(last.op)]
          /\ it' = IF d = "fwd" THEN begin ELSE rbegin
          /\ last' = called(IF d = "fwd" THEN "begin" ELSE "rbegin", 0, ub)
    /\ pc' = "loop"
    /\ out' = <<>>
    /\ UNCHANGED <<bits_per_block, bits, requested, blocks, outside>>
    /\ UNCHANGED ovars

\* one iteration: the test passes, *it is yielded, the iterator advances.
\* Dereferencing a pointer outside the buffer is undefined: it reads what the
\* neighbouring memory holds (one content per traversal) or it traps.
LoopIter ==
    /\ pc = "loop"
    /\ it # sentinel
    /\ \/ /\ \E o \in (IF it.ptr \notin DOMAIN blocks /\ ~loop.oob
                      THEN HeapFill ELSE {outside}) :
                /\ outside' = o
                /\ out' = Append(out, deref(it, loop.ub, o))
          /\ loop' = [loop EXCEPT !.oob = @ \/ (it.ptr \notin DOMAIN blocks)]
          /\ it' = advance(it)
          /\ pc' = IF advance(it).ptr < 0 - MaxGuard
                      \/ advance(it).ptr > nblocks(bits) - 1 + MaxGuard
                   THEN "lost" ELSE "loop"
       \/ /\ it.ptr \notin DOMAIN blocks
          /\ pc' = "trap"
          /\ UNCHANGED <<loop, it, out, outside>>
    /\ UNCHANGED <<bits_per_block, bits, requested, blocks, last>>
    /\ UNCHANGED ovars

LoopExit ==
    /\ pc = "loop"
    /\ it = sentinel
    /\ pc' = "done"
    /\ UNCHANGED <<loop, it, out>>
    /\ UNCHANGED cvars
    /\ UNCHANGED ovars

LoopLeave ==
    /\ pc \in {"done", "trap", "lost"}
    /\ pc' = "idle"
    /\ loop' = NoLoop
    /\ it' = NoIter
    /\ out' = <<>>
    /\ outside' = {}
    /\ UNCHANGED <<bits_per_block, bits, requested, blocks, last>>
    /\ UNCHANGED ovars

Next ==
    \/ Set
    \/ Clear
    \/ SetAll
    \/ ClearAll
    \/ At
    \/ Index
    \/ BeginLoop
    \/ LoopIter
    \/ LoopExit
    \/ LoopLeave

Spec == Init /\ [][Next]_vars

----------------------------------------------------------------------------
(* A caller that works on the array through an iterator: it calls the
   container, obtains an iterator from any entry point, steps it in either
   direction, dereferences it, compares it, lets it go and calls the
   container again.  While the iterator is held pc is "held" and loop.dir is
   its class: "fwd" for Iterator, "rev" for ReverseIterator. *)

EntryPoints == {"begin", "end", "cbegin", "cend", "rbegin", "rend", "crbegin", "crend"}

entry(e) ==
    CASE e = "begin" -> begin
      [] e = "end" -> end
      [] e = "cbegin" -> cbegin
      [] e = "cend" -> cend
      [] e = "rbegin" -> rbegin
      [] e = "rend" -> rend
      [] e = "crbegin" -> crbegin
      [] e = "crend" -> crend

class(e) == IF e \in {"begin", "end", "cbegin", "cend"} THEN "fwd" ELSE "rev"

step(c, op, i) ==
    CASE c = "fwd" /\ op = "++" -> Iterator_inc(i)
      [] c = "fwd" /\ op = "--" -> Iterator_dec(i)
      [] c = "rev" /\ op = "++" -> ReverseIterator_inc(i)
      [] c = "rev" /\ op = "--" -> ReverseIterator_dec(i)

\* the positions the caller's iterator is followed to
InReach(i) ==
    /\ i.ptr >= 0 - MaxGuard
    /\ i.ptr <= nblocks(bits) + MaxGuard
    /\ (i.current_idx <= MaxEdge \/ i.current_idx >= bits_per_block - 1 - MaxEdge)

Held == pc = "held"

IterEntry ==
    /\ pc = "idle"
    /\ pc' = "held"
    /\ \E e \in EntryPoints :
          /\ it' = entry(e)
          /\ loop' = [NoLoop EXCEPT !.dir = class(e)]
          /\ last' = called(e, 0, "wrap")
    /\ UNCHANGED <<bits_per_block, bits, requested, blocks, outside>>
    /\ UNCHANGED out
    /\ UNCHANGED ovars

\* the iterator goes out of scope
IterDrop ==
    /\ Held
    /\ pc' = "idle"
    /\ it' = NoIter
    /\ loop' = NoLoop
    /\ UNCHANGED out
    /\ UNCHANGED cvars
    /\ UNCHANGED ovars

\* ++it, it++, --it, it--
IterStep ==
    /\ Held
    /\ \E op \in {"++", "--"} :
          /\ InReach(step(loop.dir, op, it))
          /\ it' = step(loop.dir, op, it)
          /\ last' = called(op, 0, "wrap")
    /\ UNCHANGED <<bits_per_block, bits, requested, blocks, outside>>
    /\ UNCHANGED <<pc, loop, out>>
    /\ UNCHANGED ovars

\* *it, at a position inside the buffer
IterDeref ==
    /\ Held
    /\ it.ptr \in DOMAIN blocks
    /\ \E ub \in ShiftOutcomes :
          last' = [called("*", 0, ub) EXCEPT !.val = deref(it, ub, outside)]
    /\ UNCHANGED <<bits_per_block, bits, requested, blocks, outside>>
    /\ UNCHANGED tvars
    /\ UNCHANGED ovars

\* it == e(), it != e()
IterCompare ==
    /\ Held
    /\ \E e \in {x \in EntryPoints : class(x) = loop.dir} :
          last' = [called("==", 0, "wrap") EXCEPT
                      !.val = (it.ptr = entry(e).ptr /\ it.current_idx = entry(e).current_idx)]
    /\ UNCHANGED <<bits_per_block, bits, requested, blocks, outside>>
    /\ UNCHANGED tvars
    /\ UNCHANGED ovars

CallAccessible ==
    /\ pc = "idle"
    /\ \E i \in AtIdx :
          last' = [called("accessible", i, "wrap") EXCEPT !.val = accessible(i)]
    /\ UNCHANGED <<bits_per_block, bits, requested, blocks, outside>>
    /\ UNCHANGED tvars
    /\ UNCHANGED ovars

\* size(): the result is recorded in the index field
CallSize ==
    /\ pc = "idle"
    /\ last' = called("size", size, "wrap")
    /\ UNCHANGED <<bits_per_block, bits, requested, blocks, outside>>
    /\ UNCHANGED tvars
    /\ UNCHANGED ovars

NextIter ==
    \/ Set
    \/ Clear
    \/ SetAll
    \/ ClearAll
    \/ At
    \/ Index
    \/ IterEntry
    \/ IterDrop
    \/ IterStep
    \/ IterDeref
    \/ IterCompare
    \/ CallAccessible
    \/ CallSize

SpecIter == Init /\ [][NextIter]_vars

----------------------------------------------------------------------------
(* Ownership of the block buffer.  The class declares a destructor and no
   copy operation, so the copy constructor and the copy assignment the
   compiler generates copy the members blocks and bits one by one. *)

Obj == 1 .. MaxObjs

NoObj == [state |-> "none", blocks |-> 0]

owners(b) == {o \in Obj : objs[o].state = "alive" /\ objs[o].blocks = b}

InitOwn ==
    /\ bits_per_block = CHAR_BIT
    /\ bits = 0
    /\ requested = 0
    /\ blocks = <<>>
    /\ outside = {}
    /\ last = called("none", 0, "wrap")
    /\ pc = "idle"
    /\ loop = NoLoop
    /\ it = NoIter
    /\ out = <<>>
    /\ objs = [o \in Obj |-> NoObj]
    /\ heap = <<>>
    /\ uaf = FALSE

\* BitArray a{n}: blocks{new block_type[...]}
OwnConstruct ==
    /\ Len(heap) < MaxBufs
    /\ \E o \in Obj :
          /\ objs[o].state = "none"
          /\ objs' = [objs EXCEPT ![o] = [state |-> "alive", blocks |-> Len(heap) + 1]]
    /\ heap' = Append(heap, 0)
    /\ UNCHANGED uaf
    /\ UNCHANGED cvars
    /\ UNCHANGED tvars

\* BitArray b = a: the generated copy constructor
OwnCopy ==
    /\ \E o \in Obj, src \in Obj :
          /\ objs[o].state = "none"
          /\ objs[src].state = "alive"
          /\ objs' = [objs EXCEPT ![o] = [state |-> "alive", blocks |-> objs[src].blocks]]
    /\ UNCHANGED <<heap, uaf>>
    /\ UNCHANGED cvars
    /\ UNCHANGED tvars

\* b = a: the generated copy assignment
OwnAssign ==
    /\ \E o \in Obj, src \in Obj :
          /\ o # src
          /\ objs[o].state = "alive"
          /\ objs[src].state = "alive"
          /\ objs' = [objs EXCEPT ![o].blocks = objs[src].blocks]
    /\ UNCHANGED <<heap, uaf>>
    /\ UNCHANGED cvars
    /\ UNCHANGED tvars

\* ~BitArray(): if (blocks) delete[] blocks.  A buffer released twice ends
\* the defined behaviour: no third release is followed.
OwnDestroy ==
    /\ \E o \in Obj :
          /\ objs[o].state = "alive"
          /\ heap[objs[o].blocks] < 2
          /\ heap' = [heap EXCEPT ![objs[o].blocks] = @ + 1]
          /\ objs' = [objs EXCEPT ![o].state = "dead"]
    /\ UNCHANGED uaf
    /\ UNCHANGED cvars
    /\ UNCHANGED tvars

\* a live object reads or writes blocks[...] (set, clear, bit_at)
OwnUse ==
    /\ \E o \in Obj :
          /\ objs[o].state = "alive"
          /\ uaf' = (uaf \/ heap[objs[o].blocks] > 0)
    /\ UNCHANGED <<objs, heap>>
    /\ UNCHANGED cvars
    /\ UNCHANGED tvars

NextOwn ==
    \/ OwnConstruct
    \/ OwnCopy
    \/ OwnAssign
    \/ OwnDestroy
    \/ OwnUse

SpecOwn == InitOwn /\ [][NextOwn]_vars

----------------------------------------------------------------------------
(* Properties *)

Constructed == last.op \in {"BitArray(n)", "BitArray()"}

\* C1: a reverse traversal that has run from rbegin() to rend() has yielded
\* exactly size() booleans, and the k-th of them is at(size() - 1 - k).
C1_ReverseYieldsReversed ==
    (pc = "done" /\ loop.dir = "rev") =>
        /\ Len(out) = size
        /\ \A k \in 0 .. (size - 1) : \A ub \in ShiftOutcomes :
              out[k + 1] = at(size - 1 - k, ub).val

\* C2: a forward traversal that has run from begin() to end() has yielded
\* exactly size() booleans, and the k-th of them is at(k).
C2_ForwardYieldsInOrder ==
    (pc = "done" /\ loop.dir = "fwd") =>
        /\ Len(out) = size
        /\ \A k \in 0 .. (size - 1) : \A ub \in ShiftOutcomes :
              out[k + 1] = at(k, ub).val

\* C3: after set(i), at(i) and operator[](i) return true and a second set(i)
\* changes nothing; after clear(i), they return false and a second clear(i)
\* changes nothing.
C3_SetClearReadBack ==
    /\ last.op = "set" =>
          \A ub \in ShiftOutcomes :
              /\ at(last.index, ub).val
              /\ index_op(last.index, ub).val
              /\ set(blocks, last.index, ub) = blocks
    /\ last.op = "clear" =>
          \A ub \in ShiftOutcomes :
              /\ ~at(last.index, ub).val
              /\ ~index_op(last.index, ub).val
              /\ clear(blocks, last.index, ub) = blocks

\* the one bit of the buffer that index i addresses: block, position
target(i) == <<i \div bits_per_block, bits_per_block - (i % bits_per_block) - 1>>

\* C4: set(i) and clear(i) change no bit of the buffer other than the bit of
\* index i (no other logical bit, no padding bit, no other block), nor the
\* bit count.
C4_SetClearFrame ==
    [][(last'.op \in {"set", "clear"}) =>
          /\ bits' = bits
          /\ DOMAIN blocks' = DOMAIN blocks
          /\ \A b \in DOMAIN blocks : \A p \in BitPos :
                (<<b, p>> # target(last'.index)) =>
                    ((p \in blocks'[b]) <=> (p \in blocks[b]))]_vars

C6_ConstructedCleared ==
    Constructed =>
        /\ size = last.index
        /\ (last.op = "BitArray()") => (size = 16)
        /\ \A i \in 0 .. (size - 1) : \A ub \in ShiftOutcomes :
              ~at(i, ub).val /\ ~index_op(i, ub).val

\* C7: after set_all() every index below size() reads true and a forward
\* traversal yields only true; after clear_all() every index reads false and
\* a forward traversal yields only false.
C7_BulkSetClear ==
    /\ last.op = "set_all" =>
          \A i \in 0 .. (size - 1) : \A ub \in ShiftOutcomes : at(i, ub).val
    /\ last.op = "clear_all" =>
          \A i \in 0 .. (size - 1) : \A ub \in ShiftOutcomes : ~at(i, ub).val
    /\ (pc = "done" /\ loop.dir = "fwd" /\ loop.since = "set_all") =>
          \A k \in 1 .. Len(out) : out[k]
    /\ (pc = "done" /\ loop.dir = "fwd" /\ loop.since = "clear_all") =>
          \A k \in 1 .. Len(out) : ~out[k]

\* C8: on an array of size 0, begin() = end() and rbegin() = rend(), a
\* traversal loop in either direction dereferences nothing and takes no
\* step, and at(0) fails.
C8_EmptyArray ==
    (size = 0) =>
        /\ begin = end
        /\ rbegin = rend
        /\ \A ub \in ShiftOutcomes : at(0, ub).err
        /\ (pc # "idle") =>
              /\ pc \in {"loop", "done"}
              /\ out = <<>>
              /\ ~loop.oob
              /\ it = (IF loop.dir = "fwd" THEN begin ELSE rbegin)

\* a reverse traversal of an empty array has ended
C8_Witness == size = 0 /\ pc = "done" /\ loop.dir = "rev"

\* C9: construction with n bits leaves ceil(n / block width) blocks, every
\* one of them zero, the padding bits of the last block included.
C9_ConstructedZeroFilled ==
    Constructed =>
        /\ DOMAIN blocks = 0 .. (((bits + bits_per_block - 1) \div bits_per_block) - 1)
        /\ \A b \in DOMAIN blocks : blocks[b] = {}

\* C10: every allocated buffer is owned by exactly one live container until
\* it is released, is released at most once, and is not used after its
\* release.
C10_SingleOwner ==
    /\ ~uaf
    /\ \A b \in 1 .. Len(heap) :
          /\ heap[b] <= 1
          /\ (heap[b] = 0) => (Cardinality(owners(b)) = 1)
          /\ (heap[b] = 1) => (owners(b) = {})

Mutators == {"set", "clear", "set_all", "clear_all"}

\* C11: creating an iterator from any of the eight entry points, stepping it
\* with ++ or --, dereferencing it, comparing it, and calling at, operator[],
\* accessible or size change neither a block of the buffer nor the bit count;
\* and after every call, set, clear, set_all and clear_all included, size()
\* is the bit count the array was constructed with.
C11_ReadOnlyFrame ==
    [][/\ (last'.op \notin Mutators) => (blocks' = blocks /\ bits' = bits)
       /\ size' = requested'
       /\ (last'.op = "size") => (last'.index = requested')]_vars

\* a reverse iterator that has been stepped away from rbegin() has read a
\* set bit of an array whose last block is partly used
C11_Witness ==
    /\ last.op = "*" /\ last.val
    /\ loop.dir = "rev" /\ it # rbegin
    /\ size = requested /\ size % bits_per_block # 0 /\ size > bits_per_block

\* C12: for size() >= 1, rbegin() and crbegin() are at the block that holds
\* bit size() - 1, at offset (size() - 1) mod block width, and dereferencing
\* them gives at(size() - 1); a reverse iterator constructed with a negative
\* offset is one block before the pointer it was given, at offset
\* block width - 1.
C12_RbeginAtLastBit ==
    /\ (size >= 1) =>
          /\ rbegin = [ptr |-> (size - 1) \div bits_per_block,
                       current_idx |-> (size - 1) % bits_per_block]
          /\ crbegin = [ptr |-> (size - 1) \div bits_per_block,
                        current_idx |-> (size - 1) % bits_per_block]
          /\ \A ub \in ShiftOutcomes :
                deref(rbegin, ub, outside) = at(size - 1, ub).val
    /\ \A p \in 0 .. nblocks(bits) :
          ReverseIterator(p, -1, bits) = [ptr |-> p - 1, current_idx |-> bits_per_block - 1]

\* C13: in a traversal loop from begin() to end() or from rbegin() to rend(),
\* every position that is dereferenced is a block of the buffer and a bit
\* below size(); no block outside the buffer is read.
C13_DereferenceInBounds ==
    /\ ~loop.oob
    /\ pc # "trap"
    /\ (pc = "loop" /\ it # sentinel) =>
          /\ it.ptr \in DOMAIN blocks
          /\ it.ptr * bits_per_block + it.current_idx \in 0 .. (size - 1)

\* C14: a traversal loop reaches its sentinel after exactly size() steps: it
\* never takes more than size() steps, after size() steps its iterator
\* equals end() (forward) or rend() (reverse), it does not end earlier, and
\* the iterator never runs away from the buffer.
C14_TraversalTerminates ==
    /\ pc # "lost"
    /\ (pc \in {"loop", "done"}) =>
          /\ Len(out) <= size
          /\ (Len(out) = size) => (it = sentinel)
          /\ (it = sentinel) => (Len(out) = size)

\* the forward half of C13 and C14, which the code meets for every width
ForwardTraversalSound ==
    (loop.dir = "fwd") => (C13_DereferenceInBounds /\ C14_TraversalTerminates)

\* C15: at every position with an offset inside the block, for the forward
\* and for the reverse iterator, ++ followed by -- and -- followed by ++ come
\* back to the same (block, offset); the reverse iterator's ++ is the forward
\* iterator's -- and its -- the forward iterator's ++; and every step leaves
\* the offset inside the block.
C15_StepsInverse ==
    Held =>
        /\ it.current_idx \in BitPos
        /\ \A k \in BitPos :
              LET p == [ptr |-> it.ptr, current_idx |-> k] IN
                /\ Iterator_dec(Iterator_inc(p)) = p
                /\ Iterator_inc(Iterator_dec(p)) = p
                /\ ReverseIterator_dec(ReverseIterator_inc(p)) = p
                /\ ReverseIterator_inc(ReverseIterator_dec(p)) = p
                /\ ReverseIterator_inc(p) = Iterator_dec(p)
                /\ ReverseIterator_dec(p) = Iterator_inc(p)
                /\ Iterator_inc(p).current_idx \in BitPos
                /\ Iterator_dec(p).current_idx \in BitPos
                /\ ReverseIterator_inc(p).current_idx \in BitPos
                /\ ReverseIterator_dec(p).current_idx \in BitPos

\* a forward iterator has stepped back from end() across a block boundary
\* into the last block
C15_Witness ==
    /\ last.op = "--" /\ loop.dir = "fwd"
    /\ bits > 0
    /\ it = [ptr |-> nblocks(bits) - 1, current_idx |-> bits_per_block - 1]

\* C16: for every block width and every index i, block_bitmask(i) has exactly
\* one bit set, the bit at position width - (i mod width) - 1, so that offset
\* 0 is the most significant bit and offset width - 1 the least significant;
\* different offsets of a block have different masks.
C16_SingleBitMask ==
    /\ \A i \in 0 .. (2 * bits_per_block - 1) : \A ub \in ShiftOutcomes :
          block_bitmask(i, ub) = {bits_per_block - (i % bits_per_block) - 1}
    /\ \A i \in BitPos : \A j \in BitPos : \A ub \in ShiftOutcomes :
          (i # j) => (block_bitmask(i, ub) # block_bitmask(j, ub))

\* the widths for which C16 holds: the shift stays below the width of int
MaskSoundUpTo32 ==
    (bits_per_block <= int_bits) => C16_SingleBitMask

\* C17: the buffer has (n / width) + !!(n % width) blocks for the n it was
\* constructed with; that count is the least k with k * width >= size(), so
\* count * width >= size() and (count - 1) * width < size(); and this holds
\* after every set, clear, set_all and clear_all: the buffer is never resized.
C17_MinimalAllocation ==
    LET block_count == Cardinality(DOMAIN blocks) IN
        /\ DOMAIN blocks = 0 .. (block_count - 1)
        /\ block_count = nblocks(requested)
        /\ block_count * bits_per_block >= bits
        /\ (block_count - 1) * bits_per_block < bits
        /\ \A k \in 0 .. block_count : (k * bits_per_block >= bits) <=> (k = block_count)

\* set_all has run on an array of one full block and one bit more
C17_Witness ==
    /\ last.op = "set_all"
    /\ bits = bits_per_block + 1
    /\ Cardinality(DOMAIN blocks) = 2

\* the positions of the const entry points are those of the plain ones
ConstSamePositions ==
    /\ cbegin = begin
    /\ cend = end
    /\ crbegin = rbegin
    /\ crend = rend

\* C18: cbegin() and cend() are at the positions of begin() and end(),
\* crbegin() and crend() at those of rbegin() and rend(), and a traversal
\* through the const entry points yields the booleans of the plain traversal:
\* at each position the plain loop dereferences, the const iterator's
\* dereference gives the same boolean.
C18_ConstSameTraversal ==
    /\ ConstSamePositions
    /\ (pc = "loop" /\ it # sentinel /\ it.ptr \in DOMAIN blocks) =>
          \A ub \in ShiftOutcomes :
              deref(it, ub, outside) = deref(it, loop.ub, outside)

====
